---- MODULE Spec2Model ----
(***************************************************************************)
(* Shein stock monitor (src/monitor.py): the control loop of               *)
(* SheinMonitor.run with its daily reset, discovery merge, verification    *)
(* result processing, state store and signal handler.                      *)
(*                                                                         *)
(* Strings that the code trims are sequences of one-character strings, so  *)
(* that str.strip() is computed rather than assumed.  A dict is a function *)
(* whose DOMAIN is its key set.                                            *)
(***************************************************************************)
EXTENDS Integers, Sequences, FiniteSets, TLC

VARIABLES
    running,                    \* self.running
    pc,                         \* position of the thread executing run()
    gender_idx,                 \* index into MONITORED_GENDERS of the discovery loop
    last_reset_date,            \* local of run()
    stock_state,                \* self.stock_state
    file,                       \* content of stock_state.json
    all_found_products,         \* local of run(): clean code -> product
    futures,                    \* futures as_completed() has not yielded yet (by submitted code)
    verifying,                  \* verify_stock calls that are executing (by submitted code)
    products,                   \* local of fetch_products_for_gender: its keys, in dict order
    page_futures,               \* pages whose future as_completed() has not yielded yet
    fetching,                   \* pages whose fetch_page call is executing
    fetch_hist,                 \* history of this call of fetch_products_for_gender
    processed_codes_this_cycle, \* local of run()
    sd_done,                    \* statements of shutdown() executed so far
    now,                        \* last reading of datetime.now(ist_tz)
    exit_cause,                 \* history: how run() was left
    stop_called,                \* history: stop() was called during this run()
    results,                    \* history: raw code -> result taken from its future this cycle
    cycle_start_state,          \* history: stock_state when the cycle's discovery began
    sent,                       \* history: product notifications attempted this cycle
    discovered,                 \* history: raw codes discovery returned this cycle
    listed_twice,               \* history: clean codes both genders listed, until the sleep
    reset_dates,                \* history: dates on which a daily reset was executed
    reset_info,                 \* history: the daily reset of this cycle, if one was executed
    call,                       \* a single call of one method: its arguments and inputs
    ret                         \* what that call returned

vars == <<running, pc, gender_idx, last_reset_date, stock_state, file,
          all_found_products, futures, verifying, products, page_futures, fetching,
          fetch_hist, processed_codes_this_cycle, sd_done, now,
          exit_cause, stop_called, results, cycle_start_state, sent,
          discovered, listed_twice,
          reset_dates, reset_info, call, ret>>

---------------------------------------------------------------------------
(* Bounds of the model *)

MaxDate == 1        \* calendar dates the clock runs through

(* Program constants *)

ResetHour == 7
NoDate == 0                     \* last_reset_date = None
SendAttempts == 3               \* range(3) in send_telegram_message
MAX_RETRIES == 3
MONITORED_GENDERS == <<"Men", "Women">>

---------------------------------------------------------------------------
(* Input domains *)

Dates == 1..MaxDate
Hours == {7, 8}
Times == [date : Dates, hour : Hours]

\* product codes as the category API may return them
RawCodes == {<<"A">>, <<" ", "A">>, <<"B">>}

\* the 'code' of a listing entry: a product code, or an empty one
EntryCodes == RawCodes \cup {<<>>}

\* the 'products' of one listing page
PageEntries == {<<>>} \cup {<<c>> : c \in EntryCodes}

\* pagination.totalPages of page 1; NoPagination when the key is absent
NoPagination == 0
PageCounts == {NoPagination, 1, 2}

Sizes == {"M"}
\* stock.stockLevel as the page's JSON gives it: a number, or null
Quantities == {[num |-> 0], [num |-> 2], [lit |-> "null"]}
StockLevelStatuses == {"inStock", "outOfStock"}
Variants == [stockLevel : Quantities, stockLevelStatus : StockLevelStatuses, size : Sizes]
VariantLists == {<<>>} \cup {<<v>> : v \in Variants}

\* what session.get(product url) can produce: an exception, or a response
\* with the features verify_stock inspects
Responses ==
    [raises : {TRUE}, status : {0}, marker : {FALSE}, parses : {FALSE},
     has_details : {FALSE}, literal : {FALSE}, variants : {<<>>}]
    \cup [raises : {FALSE}, status : {403, 500}, marker : {FALSE}, parses : {FALSE},
          has_details : {FALSE}, literal : {FALSE}, variants : {<<>>}]
    \cup [raises : {FALSE}, status : {200}, marker : {TRUE}, parses : {TRUE},
          has_details : {FALSE}, literal : {TRUE}, variants : {<<>>}]
    \cup [raises : {FALSE}, status : {200}, marker : {TRUE}, parses : {TRUE},
          has_details : {TRUE}, literal : {FALSE}, variants : VariantLists]

\* variantOptions of up to two variants
VariantPairs == VariantLists \cup {<<v, w>> : v \in Variants, w \in Variants}

\* product pages answered with HTTP 200, in every combination of the
\* features verify_stock inspects: the state marker matched by the regex or
\* not, its JSON parsing or not, product.productDetails present or not, the
\* literal "stockLevelStatus":"inStock" in the body or not
DetailPages ==
    [raises : {FALSE}, status : {200}, marker : {FALSE}, parses : {FALSE},
     has_details : {FALSE}, literal : BOOLEAN, variants : {<<>>}]
    \cup [raises : {FALSE}, status : {200}, marker : {TRUE}, parses : BOOLEAN,
          has_details : {FALSE}, literal : BOOLEAN, variants : {<<>>}]
    \cup [raises : {FALSE}, status : {200}, marker : {TRUE}, parses : {TRUE},
          has_details : {TRUE}, literal : BOOLEAN, variants : VariantPairs]

\* what standard_requests.post can produce for one delivery attempt
TelegramResponses == {"200", "429", "400", "ReadTimeout", "Exception"}

SaveOutcomes == {"ok", "write_failed"}

---------------------------------------------------------------------------
(* Dicts *)

EmptyDict == <<>>
Put(d, k, v) == [x \in DOMAIN d \cup {k} |-> IF x = k THEN v ELSE d[x]]
Values(d) == {d[k] : k \in DOMAIN d}

(* str.strip() *)

IsSpace(ch) == ch = " "

RECURSIVE LStrip(_)
LStrip(s) == IF s # <<>> /\ IsSpace(Head(s)) THEN LStrip(Tail(s)) ELSE s

RECURSIVE RStrip(_)
RStrip(s) ==
    IF s # <<>> /\ IsSpace(s[Len(s)]) THEN RStrip(SubSeq(s, 1, Len(s) - 1)) ELSE s

StripIdentity(s) == s

Strip(s) == RStrip(LStrip(s))

---------------------------------------------------------------------------
(* State store *)

InStockRecord(details) == [in_stock |-> TRUE, details |-> details]
OutOfStockRecord == [in_stock |-> FALSE]

\* self.stock_state.get(code, {}).get('in_stock', False)
PrevState(state, code) == IF code \in DOMAIN state THEN state[code].in_stock ELSE FALSE

\* json.dump: a bool becomes the literal true/false, a str a JSON string, a
\* dict an object whose members keep the dict's keys
JsonBool(b) == [lit |-> IF b THEN "true" ELSE "false"]
JsonString(s) == [str |-> s]

\* the members of one stock record
JsonRecord(rec) ==
    <<<<"in_stock", JsonBool(rec.in_stock)>>>>
    \o (IF "details" \in DOMAIN rec THEN <<<<"details", JsonString(rec.details)>>>> ELSE <<>>)

RECURSIVE JsonMembers(_, _)
JsonMembers(state, keys) ==
    IF keys = {} THEN <<>>
    ELSE LET k == CHOOSE x \in keys : TRUE IN
         <<<<k, JsonRecord(state[k])>>>> \o JsonMembers(state, keys \ {k})

\* details left out of every record
JsonDumpNoDetails(state) ==
    JsonMembers([k \in DOMAIN state |-> [in_stock |-> state[k].in_stock]], DOMAIN state)

\* json.dump(self.stock_state, f, indent=4)
JsonDump(state) == JsonMembers(state, DOMAIN state)

\* json.load of one value
JsonValue(v) == IF "lit" \in DOMAIN v THEN v.lit = "true" ELSE v.str

\* json.load of an object: a dict of its members, a later member replacing
\* an earlier one of the same key
RECURSIVE JsonObject(_, _)
JsonObject(members, d) ==
    IF members = <<>> THEN d
    ELSE JsonObject(Tail(members), Put(d, Head(members)[1], Head(members)[2]))

JsonRecordLoad(members) ==
    JsonObject([i \in DOMAIN members |-> <<members[i][1], JsonValue(members[i][2])>>],
               EmptyDict)

\* json.load(f)
JsonLoad(text) ==
    JsonObject([i \in DOMAIN text |-> <<text[i][1], JsonRecordLoad(text[i][2])>>],
               EmptyDict)

MissingFile == [valid |-> FALSE, data |-> EmptyDict]

\* load_state: a missing or unreadable file yields {}
LoadState(f) == IF f.valid THEN f.data ELSE EmptyDict

\* save_state: open(..., 'w') truncates, json.dump writes the whole mapping;
\* an exception while writing is logged and swallowed, and leaves a file
\* that load_state cannot read.  `data` is what json.load makes of the text
\* written.
SaveState(f, state, outcome) ==
    IF outcome = "ok" THEN [valid |-> TRUE, data |-> JsonLoad(JsonDump(state))]
    ELSE MissingFile

---------------------------------------------------------------------------
(* verify_stock *)

\* `qty > 0` (line 346) raises TypeError when qty is None
QtyRaises(v) == "lit" \in DOMAIN v.stockLevel

\* the entry appended to in_stock_sizes for one variant, <<>> when none is
InStockSize(v) ==
    IF v.stockLevel.num > 0
    THEN <<v.size \o " (" \o ToString(v.stockLevel.num) \o ")">>
    ELSE IF v.stockLevelStatus = "inStock"
         THEN <<v.size \o " (In Stock)">>
         ELSE <<>>

RECURSIVE InStockSizes(_)
InStockSizes(variants) ==
    IF variants = <<>> THEN <<>>
    ELSE InStockSize(Head(variants)) \o InStockSizes(Tail(variants))

\* ", ".join(parts)
RECURSIVE Join(_)
Join(parts) ==
    IF parts = <<>> THEN ""
    ELSE IF Len(parts) = 1 THEN parts[1]
         ELSE parts[1] \o ", " \o Join(Tail(parts))

Result(flag, details) == [is_in_stock |-> flag, details |-> details]

\* the tuple verify_stock returns; is_in_stock is "True", "False" or "None"
VerifyStock(resp) ==
    IF resp.raises THEN Result("False", "Error")
    ELSE IF resp.status = 200
         THEN IF resp.marker /\ resp.parses
              THEN IF resp.has_details
                   THEN IF \E i \in DOMAIN resp.variants : QtyRaises(resp.variants[i])
                        THEN \* caught by `except Exception` (line 373)
                             Result("False", "Error")
                        ELSE IF InStockSizes(resp.variants) # <<>>
                             THEN Result("True", Join(InStockSizes(resp.variants)))
                             ELSE Result("False", "Out of Stock")
                   ELSE IF resp.literal
                        THEN Result("False", "Structure Mismatch (OOS Safety)")
                        ELSE Result("False", "Structure Mismatch")
              ELSE Result("False", "No Data")
         ELSE IF resp.status = 403
              THEN Result("None", "403")
              ELSE Result("False", "HTTP " \o ToString(resp.status))

VerifyResults == {VerifyStock(resp) : resp \in Responses}

\* the responses the site would give to successive requests for one product
VerifyScripts == [1..MAX_RETRIES -> Responses]

\* the same product page given to every request
DetailScripts == {[i \in 1..MAX_RETRIES |-> page] : page \in DetailPages}

\* one call of verify_stock: a single session.get (line 322), whose outcome
\* is returned
VerifyStockCall(script) == [result |-> VerifyStock(script[1]), requests |-> 1]

---------------------------------------------------------------------------
(* send_telegram_message *)

Images == {"", "img"}

\* the responses the delivery attempts of one call receive, in order
TelegramScripts == [1..(SendAttempts + 1) -> TelegramResponses]

\* the credentials send_telegram_message picks (lines 159-164)
Destination(gender) == IF gender = "Women" THEN "CHAT_ID_WOMEN" ELSE "CHAT_ID"

\* the endpoint one request goes to
Endpoint(photo) == IF photo THEN "sendPhoto" ELSE "sendMessage"

\* a ReadTimeout handled like any other exception: sleep and try again
RECURSIVE SendLoopTimeoutRetried(_, _, _, _)
SendLoopTimeoutRetried(script, photo, attempt, posts) ==
    IF attempt >= SendAttempts THEN [delivered |-> FALSE, posts |-> posts]
    ELSE LET resp == script[Len(posts) + 1]
             made == Append(posts, Endpoint(photo))
         IN
         CASE resp = "200" -> [delivered |-> TRUE, posts |-> made]
           [] resp \in {"429", "ReadTimeout", "Exception"} ->
                SendLoopTimeoutRetried(script, photo, attempt + 1, made)
           [] OTHER ->
                IF photo /\ attempt = 0
                THEN SendLoopTimeoutRetried(script, FALSE, 0, made)
                ELSE SendLoopTimeoutRetried(script, photo, attempt + 1, made)

\* the text-only retry made after a failed photo request of any attempt
RECURSIVE SendLoopFallbackAlways(_, _, _, _)
SendLoopFallbackAlways(script, photo, attempt, posts) ==
    IF attempt >= SendAttempts THEN [delivered |-> FALSE, posts |-> posts]
    ELSE LET resp == script[Len(posts) + 1]
             made == Append(posts, Endpoint(photo))
         IN
         CASE resp = "200" -> [delivered |-> TRUE, posts |-> made]
           [] resp = "429" -> SendLoopFallbackAlways(script, photo, attempt + 1, made)
           [] resp = "ReadTimeout" -> [delivered |-> TRUE, posts |-> made]
           [] resp = "Exception" -> SendLoopFallbackAlways(script, photo, attempt + 1, made)
           [] OTHER -> SendLoopFallbackAlways(script, FALSE, attempt + 1, made)

\* the loop from iteration `attempt` on; `posts` lists the requests made so
\* far, and request number n receives script[n]
RECURSIVE SendLoop(_, _, _, _)
SendLoop(script, photo, attempt, posts) ==
    IF attempt >= SendAttempts THEN [delivered |-> FALSE, posts |-> posts]
    ELSE LET resp == script[Len(posts) + 1]
             made == Append(posts, Endpoint(photo))
         IN
         CASE resp = "200" -> [delivered |-> TRUE, posts |-> made]
           [] resp = "429" -> SendLoop(script, photo, attempt + 1, made)
           [] resp = "ReadTimeout" -> [delivered |-> TRUE, posts |-> made]
           [] resp = "Exception" -> SendLoop(script, photo, attempt + 1, made)
           [] OTHER ->
                IF photo /\ attempt = 0
                THEN SendLoop(script, FALSE, 0, made)
                ELSE SendLoop(script, photo, attempt + 1, made)

SendTelegramMessage(script, photo_url) == SendLoop(script, photo_url # "", 0, <<>>)

\* a request of the call raised ReadTimeout
TimedOut(script, r) == \E n \in DOMAIN r.posts : script[n] = "ReadTimeout"

\* the requests the call made after the first one that raised ReadTimeout
PostsAfterTimeout(script, r) ==
    IF TimedOut(script, r)
    THEN Len(r.posts) - (CHOOSE n \in DOMAIN r.posts :
                            /\ script[n] = "ReadTimeout"
                            /\ \A k \in 1..(n - 1) : script[k] # "ReadTimeout")
    ELSE 0

\* a call as its caller and the history see it
SendOutcome(script, r) ==
    [delivered |-> r.delivered,
     read_timeout |-> TimedOut(script, r),
     posts_after |-> PostsAfterTimeout(script, r)]

\* the outcomes a call can have
SendOutcomes == [image \in Images |->
                   {SendOutcome(script, SendTelegramMessage(script, image)) :
                       script \in TelegramScripts}]

---------------------------------------------------------------------------
(* fetch_page *)

\* what one session.get(CATEGORY_API_URL) can produce: a 200 whose body
\* resp.json() parses, a 200 whose body it rejects, another status, an
\* exception
PageResponses == {"200", "200_invalid_json", "403", "500", "Exception"}

\* the responses the attempts of one call receive, in order
FetchScripts == [1..MAX_RETRIES -> PageResponses]

\* the sleep that follows a failed attempt (lines 230-236)
Backoff(resp) == IF resp = "403" THEN "uniform(2, 5)" ELSE "1"

\* the loop `for attempt in range(MAX_RETRIES)` from iteration `attempt` on
RECURSIVE FetchLoop(_, _, _)
FetchLoop(script, attempt, sleeps) ==
    IF attempt >= MAX_RETRIES THEN [ok |-> FALSE, requests |-> attempt, sleeps |-> sleeps]
    ELSE LET resp == script[attempt + 1] IN
         IF resp = "200"
         THEN [ok |-> TRUE, requests |-> attempt + 1, sleeps |-> sleeps]
         ELSE FetchLoop(script, attempt + 1, Append(sleeps, Backoff(resp)))

\* fetch_page: ok is FALSE when it returns None
FetchPage(script) == FetchLoop(script, 0, <<>>)

\* whether a call of fetch_page can return data, can return None
FetchReturns == {FetchPage(script).ok : script \in FetchScripts}

---------------------------------------------------------------------------
(* run(): helpers *)

TimeLeq(a, b) == a.date < b.date \/ (a.date = b.date /\ a.hour <= b.hour)

\* the daily reset condition of line 394
ResetDue(t, last) == t.hour = ResetHour /\ t.date # last

\* clear and save exchanged: the old mapping is saved, then cleared
ResetOrderSaveFirst == <<"announce_men", "announce_women", "save", "clear", "mark">>

\* the statements of the daily reset, in order (lines 396-401)
ResetOrder == <<"announce_men", "announce_women", "clear", "save", "mark">>

NotSaved == [saved |-> FALSE]
NoReset == [fired |-> FALSE]

\* the statements `stmts` executed from `st` on
RECURSIVE RunReset(_, _)
RunReset(stmts, st) ==
    IF stmts = <<>> THEN st
    ELSE LET stmt == Head(stmts) IN
         RunReset(Tail(stmts),
            CASE stmt = "announce_men" -> [st EXCEPT !.announced = Append(@, "Men")]
              [] stmt = "announce_women" -> [st EXCEPT !.announced = Append(@, "Women")]
              [] stmt = "clear" -> [st EXCEPT !.stock_state = EmptyDict]
              [] stmt = "save" -> [st EXCEPT !.save = [saved |-> TRUE, state |-> st.stock_state]]
              [] stmt = "mark" -> [st EXCEPT !.marked = TRUE])

\* the daily reset applied to the store `state`
DailyReset(state) ==
    RunReset(ResetOrder,
             [announced |-> <<>>, stock_state |-> state, save |-> NotSaved, marked |-> FALSE])

\* _parse_product: an entry without code is dropped; products_dict[code] is
\* assigned, which keeps the place of a key already there
ParseProduct(prods, code) ==
    IF code = <<>> THEN prods
    ELSE IF \E i \in DOMAIN prods : prods[i] = code THEN prods
         ELSE Append(prods, code)

\* for p in data['products']: self._parse_product(p, products, gender)
RECURSIVE ParseProducts(_, _)
ParseProducts(prods, entries) ==
    IF entries = <<>> THEN prods
    ELSE ParseProducts(ParseProduct(prods, Head(entries)), Tail(entries))

\* first_page_data['pagination'].get('totalPages', 1), 1 without pagination
TotalPages(pagination) == IF pagination = NoPagination THEN 1 ELSE pagination

\* range(1, total_pages + 1): page 1 is submitted again
PagesToFetchFromOne(total_pages) ==
    IF total_pages > 1 THEN 1..total_pages ELSE {}

\* pages_to_fetch (lines 293-294)
PagesToFetch(total_pages) ==
    IF total_pages > 1 THEN 2..total_pages ELSE {}

\* the pages a worker of the page pool can be given
PoolPages == UNION {PagesToFetch(TotalPages(n)) : n \in PageCounts}

\* the pool is left without waiting for what was submitted
AllDoneNoWait(pending) == TRUE

\* `for future in as_completed(...)` is exhausted and the `with` block of
\* the executor is left: every future submitted has completed and been taken
AllDone(pending) == pending = {}

\* one more call of fetch_page for `page`
Called(calls, page) ==
    Put(calls, page, IF page \in DOMAIN calls THEN calls[page] + 1 ELSE 1)

NoFetch == [first_ok |-> FALSE, total_pages |-> 0, calls |-> EmptyDict, codes |-> {},
            failed |-> {}]

Product(code, gender) == [code |-> code, category |-> gender]

\* the key run() files a discovered product under (line 415)
CleanCode(k) == Strip(k)

\* an identifier already found keeps its first entry
RECURSIVE MergeProductsFirstWins(_, _, _)
MergeProductsFirstWins(found, codes, gender) ==
    IF codes = <<>> THEN found
    ELSE MergeProductsFirstWins(
             IF CleanCode(Head(codes)) \in DOMAIN found THEN found
             ELSE Put(found, CleanCode(Head(codes)), Product(Head(codes), gender)),
             Tail(codes), gender)

\* for k, v in prods.items(): all_found_products[clean_code] = v
RECURSIVE MergeProducts(_, _, _)
MergeProducts(found, codes, gender) ==
    IF codes = <<>> THEN found
    ELSE MergeProducts(Put(found, CleanCode(Head(codes)), Product(Head(codes), gender)),
                       Tail(codes), gender)

\* where run() goes once discovery is over (lines 420-426)
AfterDiscovery(found) == IF found = EmptyDict THEN "sleep_empty" ELSE "verify"

\* `if not is_in_stock` in place of `if is_in_stock is None`: None counts as False
TransitionNoneAsFalse(prev_state, is_in_stock) ==
    IF is_in_stock = "True"
    THEN IF ~prev_state THEN "notify" ELSE "none"
    ELSE IF prev_state THEN "clear" ELSE "none"

\* the `if not prev_state` test left out
TransitionAlwaysNotify(prev_state, is_in_stock) ==
    IF is_in_stock = "None" THEN "skip"
    ELSE IF is_in_stock = "True" THEN "notify"
         ELSE IF prev_state THEN "clear" ELSE "none"

\* what the result of a verification makes run() do (lines 448-483)
Transition(prev_state, is_in_stock) ==
    IF is_in_stock = "None" THEN "skip"
    ELSE IF is_in_stock = "True"
         THEN IF ~prev_state THEN "notify" ELSE "none"
         ELSE IF prev_state THEN "clear" ELSE "none"

\* the record written whatever the notifier returned
RecordRegardless(state, code, details, delivered) ==
    Put(state, code, InStockRecord(details))

\* the test of the notifier's result inverted
RecordAfterSendInverted(state, code, details, delivered) ==
    IF ~delivered THEN Put(state, code, InStockRecord(details)) ELSE state

\* lines 473-474: the record is written only if the notifier returned True
RecordAfterSend(state, code, details, delivered) ==
    IF delivered THEN Put(state, code, InStockRecord(details)) ELSE state

\* the out-of-stock record not written
RecordOutOfStockForgotten(state, code) == state

\* line 482
RecordOutOfStock(state, code) == Put(state, code, OutOfStockRecord)

\* running cleared before the farewell messages
ShutdownOrderClearFirst == <<"clear_running", "farewell_men", "farewell_women", "exit">>

\* the statements of shutdown(), in order (lines 121-124)
ShutdownOrder == <<"farewell_men", "farewell_women", "clear_running", "exit">>

Alive == IF sd_done = <<>> THEN TRUE ELSE sd_done[Len(sd_done)] # "exit"

fetchVars == <<products, page_futures, fetching, fetch_hist>>
loopVars == <<gender_idx, all_found_products, futures, processed_codes_this_cycle,
              fetchVars, verifying>>
storeVars == <<stock_state, file>>
cycleHist == <<results, cycle_start_state, sent, discovered, listed_twice, reset_info>>
callVars == <<call, ret>>

\* no single call is being followed
NoCall == [op |-> "none"]

---------------------------------------------------------------------------
(* Initial state: SheinMonitor.__init__ *)

InitialRecords == {InStockRecord("M (2)"), OutOfStockRecord}
CleanCodes == {Strip(c) : c \in RawCodes}
InitialFiles ==
    {MissingFile} \cup
    {[valid |-> TRUE, data |-> d] :
        d \in UNION {[keys -> InitialRecords] : keys \in SUBSET CleanCodes}}

Init ==
    /\ running = FALSE
    /\ pc = "idle"
    /\ gender_idx = 1
    /\ last_reset_date = NoDate
    /\ file \in InitialFiles
    /\ stock_state = LoadState(file)
    /\ all_found_products = EmptyDict
    /\ futures = {}
    /\ verifying = {}
    /\ products = <<>>
    /\ page_futures = {}
    /\ fetching = {}
    /\ fetch_hist = NoFetch
    /\ processed_codes_this_cycle = {}
    /\ sd_done = <<>>
    /\ now = [date |-> 1, hour |-> ResetHour]
    /\ exit_cause = "none"
    /\ stop_called = FALSE
    /\ results = EmptyDict
    /\ cycle_start_state = EmptyDict
    /\ sent = <<>>
    /\ discovered = {}
    /\ listed_twice = {}
    /\ reset_dates = {}
    /\ reset_info = NoReset
    /\ call = NoCall
    /\ ret = NoCall

---------------------------------------------------------------------------
(* Operations *)

\* start() / run() up to the loop: running is set, the start messages are
\* sent (their result is ignored), cycle and last_reset_date are initialised.
\* A new run() begins only when none is executing.
Start ==
    /\ Alive
    /\ pc \in {"idle", "exited"}
    /\ pc = "exited" => (exit_cause = "flag" /\ ~running)
    /\ running' = TRUE
    /\ pc' = "loop"
    /\ last_reset_date' = NoDate
    /\ exit_cause' = "none"
    /\ stop_called' = FALSE
    /\ UNCHANGED <<loopVars, storeVars, cycleHist, sd_done, now, reset_dates, callVars>>

\* stop().  running is read by the loop test only, so the call is placed
\* where the test comes next: it commutes with every other step of the loop.
Stop ==
    /\ Alive
    /\ pc \in {"loop", "sleep", "sleep_empty"}
    /\ running
    /\ running' = FALSE
    /\ stop_called' = TRUE
    /\ UNCHANGED <<pc, last_reset_date, loopVars, storeVars, cycleHist, sd_done, now,
                   exit_cause, reset_dates, callVars>>

\* run() is left: its locals are gone
LeaveRun(cause) ==
    /\ pc' = "exited"
    /\ exit_cause' = cause
    /\ last_reset_date' = NoDate
    /\ gender_idx' = 1
    /\ all_found_products' = EmptyDict
    /\ futures' = {}
    /\ verifying' = {}
    /\ products' = <<>>
    /\ page_futures' = {}
    /\ fetching' = {}
    /\ fetch_hist' = NoFetch
    /\ processed_codes_this_cycle' = {}
    /\ results' = EmptyDict
    /\ cycle_start_state' = EmptyDict
    /\ sent' = <<>>
    /\ discovered' = {}
    /\ listed_twice' = {}
    /\ reset_info' = NoReset

\* time.sleep returns (or run() reaches the loop), while self.running: false
LoopExit ==
    /\ Alive
    /\ pc \in {"loop", "sleep", "sleep_empty"}
    /\ ~running
    /\ LeaveRun("flag")
    /\ UNCHANGED <<running, storeVars, sd_done, now, stop_called, reset_dates, callVars>>

\* time.sleep returns (or run() reaches the loop), while self.running: true;
\* the daily reset check (lines 389-403), then the cycle begins
LoopIteration ==
    /\ Alive
    /\ pc \in {"loop", "sleep", "sleep_empty"}
    /\ running
    /\ \E t \in Times :
        /\ TimeLeq(now, t)
        /\ now' = t
        /\ IF ResetDue(t, last_reset_date)
           THEN LET r == DailyReset(stock_state) IN
                /\ stock_state' = r.stock_state
                /\ IF r.save.saved
                   THEN \E outcome \in SaveOutcomes :
                          file' = SaveState(file, r.save.state, outcome)
                   ELSE file' = file
                /\ last_reset_date' = IF r.marked THEN t.date ELSE last_reset_date
                /\ reset_dates' = reset_dates \cup {t.date}
                /\ reset_info' = [fired |-> TRUE, announced |-> r.announced,
                                  cleared |-> {c \in DOMAIN stock_state :
                                                 stock_state[c].in_stock}]
           ELSE /\ UNCHANGED <<stock_state, file, last_reset_date, reset_dates>>
                /\ reset_info' = NoReset
    /\ pc' = "discover"
    /\ gender_idx' = 1
    /\ all_found_products' = EmptyDict
    /\ results' = EmptyDict
    /\ cycle_start_state' = stock_state'
    /\ sent' = <<>>
    /\ discovered' = {}
    /\ listed_twice' = {}
    /\ UNCHANGED <<running, futures, verifying, fetchVars, processed_codes_this_cycle,
                   sd_done, exit_cause, stop_called, callVars>>

discoveryFrame == <<running, last_reset_date, storeVars, futures, verifying,
                    processed_codes_this_cycle, sd_done, now, exit_cause, stop_called,
                    results, cycle_start_state, sent, reset_dates, reset_info, callVars>>

\* fetch_products_for_gender(gender) is entered and calls fetch_page(1, gender)
CallFirstPage ==
    /\ Alive
    /\ pc = "discover"
    /\ pc' = "page1"
    /\ products' = <<>>
    /\ fetching' = fetching \cup {1}
    /\ fetch_hist' = [NoFetch EXCEPT !.calls = Called(@, 1)]
    /\ UNCHANGED <<gender_idx, all_found_products, page_futures, discovered, listed_twice,
                   discoveryFrame>>

\* fetch_page(1, gender) returns: None ends the call with {}; otherwise page
\* 1 is parsed and the remaining pages are submitted to the pool of 5
\* (lines 276-298)
FirstPageReturns ==
    /\ Alive
    /\ pc = "page1"
    /\ \E ok \in FetchReturns :
        IF ~ok
        THEN /\ pc' = "return"
             /\ fetching' = fetching \ {1}
             /\ UNCHANGED <<products, page_futures, fetch_hist>>
        ELSE \E pagination \in PageCounts : \E entries \in PageEntries :
             LET total_pages == TotalPages(pagination)
                 pages == PagesToFetch(total_pages)
             IN
             /\ products' = ParseProducts(products, entries)
             /\ page_futures' = pages
             /\ fetching' = (fetching \ {1}) \cup pages
             /\ fetch_hist' =
                   [first_ok |-> TRUE,
                    total_pages |-> total_pages,
                    calls |-> [q \in DOMAIN fetch_hist.calls \cup pages |->
                                 (IF q \in DOMAIN fetch_hist.calls
                                  THEN fetch_hist.calls[q] ELSE 0)
                                 + (IF q \in pages THEN 1 ELSE 0)],
                    codes |-> {entries[i] : i \in DOMAIN entries} \ {<<>>},
                    failed |-> {}]
             /\ pc' = IF AllDone(pages) THEN "return" ELSE "pages"
    /\ UNCHANGED <<gender_idx, all_found_products, discovered, listed_twice, discoveryFrame>>

\* a worker of the page pool: its fetch_page call returns
PageWorkerReturns(page) ==
    /\ Alive
    /\ page \in fetching
    /\ fetching' = fetching \ {page}
    /\ UNCHANGED <<pc, gender_idx, all_found_products, products, page_futures,
                   fetch_hist, discovered, listed_twice, discoveryFrame>>

\* one iteration of `for future in as_completed(future_to_page)`
\* (lines 300-312): the products of a page that has data are merged, a page
\* that failed is passed over
CollectPage(page) ==
    /\ Alive
    /\ pc = "pages"
    /\ page \in page_futures \ fetching
    /\ page_futures' = page_futures \ {page}
    /\ \E ok \in FetchReturns : \E entries \in PageEntries :
        IF ok
        THEN /\ products' = ParseProducts(products, entries)
             /\ fetch_hist' = [fetch_hist EXCEPT
                                 !.codes = @ \cup ({entries[i] : i \in DOMAIN entries}
                                                    \ {<<>>})]
        ELSE /\ products' = products
             /\ fetch_hist' = [fetch_hist EXCEPT !.failed = @ \cup {page}]
    /\ pc' = IF AllDone(page_futures') THEN "return" ELSE "pages"
    /\ UNCHANGED <<gender_idx, all_found_products, fetching, discovered, listed_twice, discoveryFrame>>

\* fetch_products_for_gender returns and run() merges what it returned
\* (lines 413-416), then goes on to the next gender
ReturnProducts ==
    /\ Alive
    /\ pc = "return"
    /\ all_found_products' =
           MergeProducts(all_found_products, products, MONITORED_GENDERS[gender_idx])
    /\ discovered' = discovered \cup {products[i] : i \in DOMAIN products}
    /\ listed_twice' = listed_twice \cup
           ({CleanCode(products[i]) : i \in DOMAIN products}
              \cap DOMAIN all_found_products)
    /\ products' = <<>>
    /\ page_futures' = {}
    /\ fetch_hist' = NoFetch
    /\ IF gender_idx < Len(MONITORED_GENDERS)
       THEN /\ gender_idx' = gender_idx + 1
            /\ pc' = "discover"
       ELSE /\ gender_idx' = gender_idx
            /\ pc' = "discovered"
    /\ UNCHANGED <<fetching, discoveryFrame>>

\* lines 420-433: nothing found: sleep 60 s and continue; otherwise submit a
\* verification for every product found
StartVerification ==
    /\ Alive
    /\ pc = "discovered"
    /\ pc' = AfterDiscovery(all_found_products)
    /\ futures' = {p.code : p \in Values(all_found_products)}
    /\ verifying' = futures'
    /\ processed_codes_this_cycle' = {}
    /\ UNCHANGED <<running, gender_idx, last_reset_date, storeVars, all_found_products,
                   fetchVars, sd_done, now, exit_cause, stop_called, cycleHist,
                   reset_dates, callVars>>

\* the worker records what it found by itself
VerifyWorkerWrites(raw_code) ==
    /\ Alive
    /\ raw_code \in verifying
    /\ verifying' = verifying \ {raw_code}
    /\ stock_state' = RecordOutOfStock(stock_state, Strip(raw_code))
    /\ UNCHANGED <<running, pc, last_reset_date, gender_idx, all_found_products, futures,
                   processed_codes_this_cycle, fetchVars, file, cycleHist, sd_done,
                   now, exit_cause, stop_called, reset_dates, callVars>>

\* a worker of the verification pool: its verify_stock call returns
VerifyWorkerReturns(raw_code) ==
    /\ Alive
    /\ raw_code \in verifying
    /\ verifying' = verifying \ {raw_code}
    /\ UNCHANGED <<running, pc, last_reset_date, gender_idx, all_found_products, futures,
                   processed_codes_this_cycle, fetchVars, storeVars, cycleHist, sd_done,
                   now, exit_cause, stop_called, reset_dates, callVars>>

\* one iteration of `for future in as_completed(future_to_code)` (lines 435-486)
ProcessResult(raw_code) ==
    /\ Alive
    /\ pc = "verify"
    /\ raw_code \in futures \ verifying
    /\ LET code == Strip(raw_code) IN
       IF code \in processed_codes_this_cycle
       THEN /\ futures' = futures \ {raw_code}
            /\ UNCHANGED <<pc, processed_codes_this_cycle, storeVars, exit_cause, results,
                           sent, last_reset_date, gender_idx, all_found_products,
                           cycle_start_state, discovered, listed_twice, reset_info>>
       ELSE IF raw_code \notin DOMAIN all_found_products
            THEN \* all_found_products[raw_code] raises KeyError outside the try
                 /\ pc' = "unwinding"
                 /\ futures' = futures \ {raw_code}
                 /\ UNCHANGED <<processed_codes_this_cycle, storeVars, exit_cause,
                                results, sent, last_reset_date, gender_idx,
                                all_found_products, cycle_start_state, discovered, listed_twice,
                                reset_info>>
            ELSE
              /\ futures' = futures \ {raw_code}
              /\ processed_codes_this_cycle' = processed_codes_this_cycle \cup {code}
              /\ UNCHANGED <<pc, exit_cause, last_reset_date, gender_idx,
                             all_found_products, cycle_start_state, discovered, listed_twice,
                             reset_info>>
              /\ \E res \in VerifyResults :
                 LET product == all_found_products[raw_code]
                     todo == Transition(PrevState(stock_state, code), res.is_in_stock)
                 IN
                 /\ results' = Put(results, raw_code, res)
                 /\ CASE todo = "notify" ->
                           \E image \in Images : \E out \in SendOutcomes[image] :
                             /\ sent' = Append(sent, [code |-> product.code,
                                                      gender |-> product.category,
                                                      chat |-> Destination(product.category),
                                                      delivered |-> out.delivered,
                                                      read_timeout |-> out.read_timeout,
                                                      posts_after |-> out.posts_after])
                             /\ stock_state' =
                                    RecordAfterSend(stock_state, code, res.details,
                                                    out.delivered)
                             /\ IF out.delivered
                                THEN \E outcome \in SaveOutcomes :
                                       file' = SaveState(file, stock_state', outcome)
                                ELSE file' = file
                      [] todo = "clear" ->
                             /\ stock_state' = RecordOutOfStock(stock_state, code)
                             /\ \E outcome \in SaveOutcomes :
                                    file' = SaveState(file, stock_state', outcome)
                             /\ sent' = sent
                      [] OTHER -> UNCHANGED <<storeVars, sent>>
    /\ UNCHANGED <<running, verifying, fetchVars, sd_done, now, stop_called, reset_dates,
                   callVars>>

\* the exception leaves the `with` block of the executor, which waits for
\* the workers still running, and then ends run()
Unwind ==
    /\ Alive
    /\ pc = "unwinding"
    /\ verifying = {}
    /\ LeaveRun("exception")
    /\ UNCHANGED <<running, storeVars, sd_done, now, stop_called, reset_dates, callVars>>

\* the verification loop is over: sleep (lines 488-491)
EndVerification ==
    /\ Alive
    /\ pc = "verify"
    /\ AllDone(futures)
    /\ pc' = "sleep"
    /\ listed_twice' = {}
    /\ UNCHANGED <<running, last_reset_date, loopVars, storeVars, results,
                   cycle_start_state, sent, discovered, reset_info, sd_done,
                   now, exit_cause, stop_called, reset_dates, callVars>>

\* SIGINT/SIGTERM: shutdown() runs on the main thread, statement by statement
RECURSIVE RunShutdown(_, _)
RunShutdown(stmts, st) ==
    IF stmts = <<>> THEN st
    ELSE LET stmt == Head(stmts) IN
         RunShutdown(Tail(stmts),
                     [done |-> Append(st.done, stmt),
                      running |-> IF stmt = "clear_running" THEN FALSE ELSE st.running])

\* shutdown() touches neither the store nor the file; the process exits
Shutdown ==
    /\ Alive
    /\ LET st == RunShutdown(ShutdownOrder, [done |-> <<>>, running |-> running]) IN
       /\ sd_done' = st.done
       /\ running' = st.running
    /\ IF pc # "exited"
       THEN LeaveRun("signal")
       ELSE UNCHANGED <<pc, exit_cause, last_reset_date, loopVars, cycleHist>>
    /\ UNCHANGED <<storeVars, now, stop_called, reset_dates, callVars>>

Next ==
    \/ Start
    \/ Stop
    \/ LoopExit
    \/ LoopIteration
    \/ CallFirstPage
    \/ FirstPageReturns
    \/ \E page \in PoolPages : PageWorkerReturns(page)
    \/ \E page \in PoolPages : CollectPage(page)
    \/ ReturnProducts
    \/ \E raw_code \in RawCodes : VerifyWorkerReturns(raw_code)
    \/ Unwind
    \/ StartVerification
    \/ \E raw_code \in RawCodes : ProcessResult(raw_code)
    \/ EndVerification
    \/ Shutdown

Spec == Init /\ [][Next]_vars

---------------------------------------------------------------------------
(* A product that stays in stock: the cycles of run() in which the Men
   listing returns product A on its only page, its verification reports it
   in stock, and no signal, stop() or exception ends the loop *)

Watched == <<"A">>

\* fetch_page(1, gender) returns the listing of this scenario: A under Men,
\* nothing under Women
LiveFirstPageReturns ==
    /\ FirstPageReturns
    /\ pc' = "return"
    /\ products' = IF gender_idx = 1 THEN <<Watched>> ELSE <<>>

\* the loop takes a verification result; the one of A says in stock
LiveProcessResult(raw_code) ==
    /\ ProcessResult(raw_code)
    /\ raw_code = Watched => results'[Watched].is_in_stock = "True"

\* the notification of A is sent and send_telegram_message returns True
Delivers ==
    /\ LiveProcessResult(Watched)
    /\ Len(sent') = Len(sent) + 1
    /\ sent'[Len(sent')].delivered

NextLive ==
    \/ Start
    \/ LoopIteration
    \/ CallFirstPage
    \/ LiveFirstPageReturns
    \/ ReturnProducts
    \/ StartVerification
    \/ \E raw_code \in RawCodes : VerifyWorkerReturns(raw_code)
    \/ \E raw_code \in RawCodes : LiveProcessResult(raw_code)
    \/ EndVerification

\* the threads keep being scheduled and time.sleep returns (weak fairness);
\* the notifier, tried again and again, delivers at some attempt (strong
\* fairness)
SpecLive ==
    /\ Init
    /\ [][NextLive]_vars
    /\ WF_vars(NextLive)
    /\ SF_vars(Delivers)

---------------------------------------------------------------------------
(* Single calls: one method applied to every input of its domain *)

StoreRecords == {InStockRecord("M (2)"), InStockRecord(""), OutOfStockRecord}
StoreStates == UNION {[keys -> StoreRecords] : keys \in SUBSET CleanCodes}

Calls ==
    [op : {"send_telegram_message"}, script : TelegramScripts, photo_url : Images]
    \cup [op : {"fetch_page"}, script : FetchScripts]
    \cup [op : {"verify_stock"}, script : VerifyScripts \cup DetailScripts]
    \cup [op : {"save_state"}, state : StoreStates, outcome : SaveOutcomes]

mainVars == <<running, pc, gender_idx, last_reset_date, stock_state, file,
              all_found_products, futures, verifying, products, page_futures, fetching,
              fetch_hist, processed_codes_this_cycle, sd_done, now,
              exit_cause, stop_called, results, cycle_start_state, sent,
              discovered, listed_twice,
              reset_dates, reset_info>>

InitCalls ==
    /\ running = FALSE
    /\ pc = "idle"
    /\ gender_idx = 1
    /\ last_reset_date = NoDate
    /\ file = MissingFile
    /\ stock_state = LoadState(file)
    /\ all_found_products = EmptyDict
    /\ futures = {}
    /\ verifying = {}
    /\ products = <<>>
    /\ page_futures = {}
    /\ fetching = {}
    /\ fetch_hist = NoFetch
    /\ processed_codes_this_cycle = {}
    /\ sd_done = <<>>
    /\ now = [date |-> 1, hour |-> ResetHour]
    /\ exit_cause = "none"
    /\ stop_called = FALSE
    /\ results = EmptyDict
    /\ cycle_start_state = EmptyDict
    /\ sent = <<>>
    /\ discovered = {}
    /\ listed_twice = {}
    /\ reset_dates = {}
    /\ reset_info = NoReset
    /\ call \in Calls
    /\ ret = NoCall

SendTelegramCall ==
    /\ call.op = "send_telegram_message"
    /\ ret = NoCall
    /\ ret' = SendTelegramMessage(call.script, call.photo_url)
    /\ UNCHANGED <<mainVars, call>>

FetchPageCall ==
    /\ call.op = "fetch_page"
    /\ ret = NoCall
    /\ ret' = FetchPage(call.script)
    /\ UNCHANGED <<mainVars, call>>

VerifyCall ==
    /\ call.op = "verify_stock"
    /\ ret = NoCall
    /\ ret' = VerifyStockCall(call.script)
    /\ UNCHANGED <<mainVars, call>>

\* save_state() with self.stock_state = call.state, then load_state()
SaveLoadCall ==
    /\ call.op = "save_state"
    /\ ret = NoCall
    /\ LET written == SaveState(file, call.state, call.outcome) IN
       /\ file' = written
       /\ stock_state' = call.state
       /\ ret' = [loaded |-> LoadState(written)]
    /\ UNCHANGED <<running, pc, gender_idx, last_reset_date, all_found_products,
                   futures, verifying, fetchVars, processed_codes_this_cycle, sd_done,
                   now, exit_cause, stop_called, results, cycle_start_state, sent,
                   discovered, listed_twice, reset_dates, reset_info, call>>

NextCalls ==
    \/ SendTelegramCall
    \/ FetchPageCall
    \/ VerifyCall
    \/ SaveLoadCall

SpecCalls == InitCalls /\ [][NextCalls]_vars

---------------------------------------------------------------------------
(* Properties *)

NotBlank(ch) == ch # " "

\* the identifier a raw code stands for (codes hold no inner blanks)
Ident(raw) == SelectSeq(raw, NotBlank)

InStock(state, code) == code \in DOMAIN state /\ state[code].in_stock

\* the record of `code`, or <<>> when there is none
RecordOf(state, code) == IF code \in DOMAIN state THEN state[code] ELSE <<>>

\* the notifications attempted this cycle for identifier `code`
SentFor(code) == {i \in DOMAIN sent : Ident(sent[i].code) = code}

\* this step took the result of raw code `raw` from its future
Processed(raw) == raw \in DOMAIN results' /\ raw \notin DOMAIN results

\* this step called the notifier for a product
Notified == Len(sent') = Len(sent) + 1

\* C1: an in_stock: true record is put into the store only by a step in
\* which the notifier returned True for that identifier, and the file only
\* receives the store's records; a step in which the notifier returned False
\* writes neither, and until the cycle ends the store holds no in_stock: true
\* record for that identifier.
C1_RecordOnlyAfterDelivery ==
    /\ [](\A i \in DOMAIN sent :
             ~sent[i].delivered => ~InStock(stock_state, Ident(sent[i].code)))
    /\ [][/\ \A c \in DOMAIN stock_state' :
                (stock_state'[c].in_stock /\ RecordOf(stock_state, c) # stock_state'[c])
                => /\ Notified
                   /\ sent'[Len(sent')].delivered
                   /\ Ident(sent'[Len(sent')].code) = c
          /\ \A c \in DOMAIN file'.data :
                (file'.data[c].in_stock /\ RecordOf(file.data, c) # file'.data[c])
                => RecordOf(stock_state', c) = file'.data[c]
          /\ (Notified /\ ~sent'[Len(sent')].delivered)
                => UNCHANGED <<stock_state, file>>]_vars

\* a cycle ended in which one notification was delivered and recorded and
\* another failed
C1_Witness ==
    /\ pc = "sleep"
    /\ \E i, j \in DOMAIN sent :
        /\ sent[i].delivered
        /\ InStock(stock_state, Ident(sent[i].code))
        /\ ~sent[j].delivered
        /\ Ident(sent[j].code) \in DOMAIN all_found_products

\* C2: the step that takes a None (HTTP 403) result sends nothing and leaves
\* the store and the file as they are, and the record of that identifier
\* stays what it was when the cycle began.
C2_ForbiddenSkipped ==
    /\ [](\A raw \in DOMAIN results :
             results[raw].is_in_stock = "None"
             => RecordOf(stock_state, Ident(raw)) = RecordOf(cycle_start_state, Ident(raw)))
    /\ [][\A raw \in RawCodes :
             (Processed(raw) /\ results'[raw].is_in_stock = "None")
             => (UNCHANGED <<stock_state, file>> /\ sent' = sent)]_vars

\* a cycle ended in which an in-stock identifier got the 403 result
C2_Witness ==
    /\ pc = "sleep"
    /\ \E raw \in DOMAIN results :
        /\ results[raw] = Result("None", "403")
        /\ InStock(cycle_start_state, Ident(raw))
        /\ InStock(stock_state, Ident(raw))

\* C3: once a product recorded in_stock: true has been verified
\* not-in-stock, the store holds {in_stock: false} for it, without details,
\* to the end of the cycle, and the notifier was not called for it.
C3_OutOfStockRecorded ==
    \A raw \in DOMAIN results :
        (results[raw].is_in_stock = "False" /\ InStock(cycle_start_state, Ident(raw)))
        => /\ RecordOf(stock_state, Ident(raw)) = OutOfStockRecord
           /\ SentFor(Ident(raw)) = {}

\* a cycle ended in which an in-stock product went out of stock while the
\* notifier failed for another product
C3_Witness ==
    /\ pc = "sleep"
    /\ \E raw \in DOMAIN results :
        /\ results[raw].is_in_stock = "False"
        /\ InStock(cycle_start_state, Ident(raw))
    /\ \E i \in DOMAIN sent : ~sent[i].delivered

\* C4: in one cycle at most one verification result is taken and at most
\* one notification is sent per trimmed identifier.
C4_OncePerIdentifier ==
    /\ \A r1, r2 \in DOMAIN results : Ident(r1) = Ident(r2) => r1 = r2
    /\ \A i, j \in DOMAIN sent : Ident(sent[i].code) = Ident(sent[j].code) => i = j

\* a cycle ended in which discovery returned one identifier under two raw
\* codes and a notification was sent for it
C4_Witness ==
    /\ pc = "sleep"
    /\ \E r1, r2 \in discovered :
        /\ r1 # r2
        /\ Ident(r1) = Ident(r2)
        /\ SentFor(Ident(r1)) # {}

\* C5: no daily reset is executed on a date on which one was executed before.
C5_ResetOncePerDate ==
    [][(last_reset_date' # NoDate /\ last_reset_date' # last_reset_date)
       => last_reset_date' \notin reset_dates]_vars

\* C6: a product whose verification raised a transport exception is skipped:
\* no notification, and its record is what it was when the cycle began.
C6_NetworkFailureSkipped ==
    \A raw \in DOMAIN results :
        results[raw] = Result("False", "Error")
        => /\ RecordOf(stock_state, Ident(raw)) = RecordOf(cycle_start_state, Ident(raw))
           /\ SentFor(Ident(raw)) = {}

\* C7: nothing that happens inside a cycle makes run() end with an exception.
C7_NothingFatal == exit_cause # "exception"

\* C8: the step that takes a result equal to the stored status sends nothing
\* and leaves the store and the file as they are; a notification is sent
\* only for an identifier not recorded in_stock: true.
C8_NoChangeNoWrite ==
    [][/\ \A raw \in RawCodes :
             (/\ Processed(raw)
              /\ results'[raw].is_in_stock # "None"
              /\ (results'[raw].is_in_stock = "True") = InStock(stock_state, Ident(raw)))
             => (UNCHANGED <<stock_state, file>> /\ sent' = sent)
       /\ Notified => ~InStock(stock_state, Ident(sent'[Len(sent')].code))]_vars

\* a cycle ended in which a product recorded in stock was verified in stock
\* and one with no record was verified out of stock
C8_Witness ==
    /\ pc = "sleep"
    /\ sent = <<>>
    /\ stock_state = cycle_start_state
    /\ \E r1, r2 \in DOMAIN results :
        /\ results[r1].is_in_stock = "True"
        /\ InStock(cycle_start_state, Ident(r1))
        /\ results[r2].is_in_stock = "False"
        /\ Ident(r2) \notin DOMAIN cycle_start_state

\* C9: at the end of a cycle that began with an empty store and in which
\* every notification was delivered, each product found and verified
\* in-stock has exactly one notification and the record {in_stock: true,
\* details}; each other product found has no notification and no record.
C9_FirstCycle ==
    (/\ pc = "sleep"
     /\ cycle_start_state = EmptyDict
     /\ \A i \in DOMAIN sent : sent[i].delivered)
    => \A k \in DOMAIN all_found_products :
         LET raw == all_found_products[k].code IN
         /\ raw \in DOMAIN results
         /\ IF results[raw].is_in_stock = "True"
            THEN /\ Cardinality(SentFor(Ident(raw))) = 1
                 /\ RecordOf(stock_state, Ident(raw)) = InStockRecord(results[raw].details)
            ELSE /\ SentFor(Ident(raw)) = {}
                 /\ Ident(raw) \notin DOMAIN stock_state

\* such a cycle with one product in stock and one out of stock
C9_Witness ==
    /\ pc = "sleep"
    /\ cycle_start_state = EmptyDict
    /\ Len(sent) = 1
    /\ sent[1].delivered
    /\ \E r1, r2 \in DOMAIN results :
        /\ results[r1].is_in_stock = "True"
        /\ results[r2] = Result("False", "Out of Stock")

\* shutdown() has attempted both farewell messages, Men then Women, before
\* it clears running, and exits last
FarewellFirst ==
    \A i \in DOMAIN sd_done :
        /\ sd_done[i] = "clear_running"
           => \E j, k \in 1..(i - 1) :
                 j < k /\ sd_done[j] = "farewell_men" /\ sd_done[k] = "farewell_women"
        /\ sd_done[i] = "exit"
           => \E j \in 1..(i - 1) : sd_done[j] = "clear_running" /\ ~running

\* C10 as stated: run() is left only after a shutdown signal, whose handler
\* attempts both farewell messages before it clears running and exits.
C10_StoppedOnlyBySignal ==
    /\ pc = "exited" => sd_done # <<>>
    /\ FarewellFirst

\* C10 as amended: run() is left after a shutdown signal, after stop(), or by
\* an exception; the handler attempts both farewell messages before it
\* clears running and exits.
C10_StoppedBySignalStopOrException ==
    /\ pc = "exited" => (sd_done # <<>> \/ stop_called \/ exit_cause = "exception")
    /\ FarewellFirst

\* the signal arrived after a cycle had begun (the clock had been read past
\* hour 07)
C10_Witness ==
    /\ exit_cause = "signal"
    /\ Len(sd_done) = Len(ShutdownOrder)
    /\ now.hour # ResetHour

---------------------------------------------------------------------------
(* Properties of single calls *)

SendCallDone == call.op = "send_telegram_message" /\ ret # NoCall

\* the responses that make a request count as delivered
Delivering == {"200", "ReadTimeout"}

\* request number n was a photo request answered by a failure that is not a
\* rate limit
PhotoFailed(n) ==
    /\ n \in DOMAIN ret.posts
    /\ ret.posts[n] = "sendPhoto"
    /\ call.script[n] \notin {"200", "429", "ReadTimeout", "Exception"}

\* C13: one call of send_telegram_message makes at most 3 requests, the
\* text-only retry included, and returns False when none was delivered.
C13_AtMostThreePosts ==
    SendCallDone
    => /\ Len(ret.posts) <= SendAttempts
       /\ (\A n \in DOMAIN ret.posts : call.script[n] \notin Delivering) => ~ret.delivered

IsOk(resp) == IF call.op = "fetch_page" THEN resp = "200"
              ELSE ~resp.raises /\ resp.status = 200

\* the requests the per-request retry policy makes for the responses of
\* call.script: up to the first usable 200, MAX_RETRIES when there is none
PolicyRequests ==
    IF \E n \in 1..MAX_RETRIES : IsOk(call.script[n])
    THEN CHOOSE n \in 1..MAX_RETRIES :
            IsOk(call.script[n]) /\ \A k \in 1..(n - 1) : ~IsOk(call.script[k])
    ELSE MAX_RETRIES

\* C16: a call of fetch_page and a call of verify_stock make the requests of
\* the retry policy: they stop at the first 200 and give up only after 3
\* failed attempts.
C16_RetryPolicy ==
    (call.op \in {"fetch_page", "verify_stock"} /\ ret # NoCall)
    => ret.requests = PolicyRequests

\* C17: for a non-empty mapping whose write succeeds, load_state after
\* save_state returns the mapping saved: the same keys, each with the same
\* in_stock and the same details or none.
C17_RoundTrip ==
    (/\ call.op = "save_state"
     /\ ret # NoCall
     /\ call.state # EmptyDict
     /\ call.outcome = "ok")
    => /\ DOMAIN ret.loaded = DOMAIN call.state
       /\ \A k \in DOMAIN call.state :
            /\ DOMAIN ret.loaded[k] = DOMAIN call.state[k]
            /\ ret.loaded[k].in_stock = call.state[k].in_stock
            /\ "details" \in DOMAIN call.state[k]
               => ret.loaded[k].details = call.state[k].details
       /\ stock_state = call.state

\* a mapping with an in-stock record and an out-of-stock record was saved
\* and loaded
C17_Witness ==
    /\ call.op = "save_state"
    /\ ret # NoCall
    /\ call.outcome = "ok"
    /\ \E k1, k2 \in DOMAIN call.state :
         /\ call.state[k1] = InStockRecord("M (2)")
         /\ call.state[k2] = OutOfStockRecord
         /\ ret.loaded[k1].details = "M (2)"

---------------------------------------------------------------------------
(* Properties of the loop, continued *)

\* C15: a notifier call in which a request raised ReadTimeout made no
\* request after it and returned True, and the step of run() that made the
\* call put {in_stock: true, details} into the store and saved it, as for a
\* delivery answered 200.
C15_TimeoutPresumedDelivered ==
    /\ [](\A i \in DOMAIN sent :
             sent[i].read_timeout => (sent[i].delivered /\ sent[i].posts_after = 0))
    /\ [][(Notified /\ sent'[Len(sent')].read_timeout)
          => LET raw == sent'[Len(sent')].code IN
             /\ stock_state' = Put(stock_state, Ident(raw),
                                    InStockRecord(results'[raw].details))
             /\ \E outcome \in SaveOutcomes :
                    file' = SaveState(file, stock_state', outcome)]_vars

\* a cycle ended in which the notification of a product timed out and the
\* product is recorded in stock
C15_Witness ==
    /\ pc = "sleep"
    /\ \E i \in DOMAIN sent :
         /\ sent[i].read_timeout
         /\ RecordOf(stock_state, Ident(sent[i].code))
              = InStockRecord(results[sent[i].code].details)
         /\ RecordOf(file.data, Ident(sent[i].code))
              = InStockRecord(results[sent[i].code].details)

\* this step began a cycle with the daily reset
ResetStep ==
    pc \in {"loop", "sleep", "sleep_empty"} /\ pc' = "discover" /\ reset_info'.fired

ProductCodes == {products[i] : i \in DOMAIN products}

\* C20: fetch_products_for_gender requests page 1 first and nothing else
\* while that request is out; when it returns after page 1 failed, the
\* mapping is empty and page 1 is the only page requested; otherwise every
\* page 1..totalPages (1 without pagination) was requested exactly once and
\* the mapping holds exactly the products of the pages that succeeded,
\* whatever pages failed.
C20_DiscoveryPages ==
    LET calls == fetch_hist.calls IN
    /\ (calls # EmptyDict => 1 \in DOMAIN calls)
    /\ (1 \in fetching => DOMAIN calls = {1})
    /\ (pc = "return" =>
          /\ \A q \in DOMAIN calls : calls[q] = 1
          /\ IF fetch_hist.first_ok
             THEN /\ DOMAIN calls = 1..fetch_hist.total_pages
                  /\ ProductCodes = fetch_hist.codes
             ELSE /\ DOMAIN calls = {1}
                  /\ products = <<>>)

\* a call returns the product of page 1 although page 2 failed
C20_Witness ==
    /\ pc = "return"
    /\ fetch_hist.first_ok
    /\ fetch_hist.total_pages = 2
    /\ fetch_hist.failed = {2}
    /\ Len(products) = 1

\* C11: the phases of run() do not overlap.  While a verify_stock call is
\* executing no fetch_page call is, and none is waited for; a fetch_page call
\* executes only inside fetch_products_for_gender, never during verification
\* or a sleep; and when the sleep begins every verification submitted in the
\* cycle has returned and its result has been taken by the loop.
C11_PhasesDoNotOverlap ==
    /\ (verifying # {} =>
          /\ fetching = {}
          /\ page_futures = {}
          /\ pc \in {"verify", "unwinding"})
    /\ (fetching # {} => pc \in {"page1", "pages"})
    /\ (pc \in {"sleep", "sleep_empty"} =>
          /\ verifying = {}
          /\ futures = {}
          /\ fetching = {})
    /\ (pc = "sleep" =>
          \A product \in Values(all_found_products) :
             Strip(product.code) \in processed_codes_this_cycle)

\* the sleep of a cycle that fetched, verified two products and notified
C11_Witness ==
    /\ pc = "sleep"
    /\ Cardinality(DOMAIN results) = 2
    /\ sent # <<>>

\* a step of a pool worker: one of its calls returns, the loop stays put
WorkerStep ==
    /\ pc' = pc
    /\ sd_done' = sd_done
    /\ \/ (verifying' # verifying /\ verifying' \subseteq verifying)
       \/ (fetching' # fetching /\ fetching' \subseteq fetching)

\* a step of the signal handler
HandlerStep == sd_done' # sd_done

\* a step of the control loop that may write: the daily reset at the top of
\* a cycle, or a verification result being taken
LoopWriteStep ==
    \/ (pc \in {"loop", "sleep", "sleep_empty"} /\ pc' = "discover")
    \/ (pc = "verify" /\ pc' = "verify" /\ futures' # futures
        /\ verifying' = verifying /\ sd_done' = sd_done)

\* C12: the state store and the state file are written by the control loop
\* only: a step that changes either is the loop's daily reset or the loop
\* taking a verification result, and no step of a page-fetch worker, of a
\* verification worker or of the signal handler changes them.
C12_SingleWriter ==
    [][/\ (WorkerStep \/ HandlerStep) => UNCHANGED <<stock_state, file>>
       /\ (<<stock_state, file>>' # <<stock_state, file>>) => LoopWriteStep]_vars

\* a verification worker is still running while the loop has already
\* recorded a product and written the file
C12_Witness ==
    /\ pc = "verify"
    /\ verifying # {}
    /\ stock_state # EmptyDict
    /\ file.valid
    /\ file.data = stock_state
    /\ sent # <<>>

\* a call of verify_stock has returned
VerifyCallDone == call.op = "verify_stock" /\ ret # NoCall

\* the variant has quantity > 0 or status flag 'inStock'
Qualifies(v) ==
    \/ ("num" \in DOMAIN v.stockLevel /\ v.stockLevel.num > 0)
    \/ v.stockLevelStatus = "inStock"

\* C21: verify_stock returns in-stock exactly when the response is HTTP 200,
\* the state marker was found and parsed, the state has
\* product.productDetails and at least one variant has quantity > 0 or the
\* status flag 'inStock'; a structure mismatch, a missing marker and a parse
\* failure give not-in-stock, with or without the literal in the page.
C21_InStockIff ==
    VerifyCallDone =>
      LET resp == call.script[1] IN
      /\ (ret.result.is_in_stock = "True")
           <=> (/\ ~resp.raises
                /\ resp.status = 200
                /\ resp.marker
                /\ resp.parses
                /\ resp.has_details
                /\ \E i \in DOMAIN resp.variants : Qualifies(resp.variants[i]))
      /\ (/\ ~resp.raises
          /\ resp.status = 200
          /\ ~(resp.marker /\ resp.parses /\ resp.has_details))
           => ret.result.is_in_stock = "False"

\* the verify_stock calls of this cycle for identifier `code`: the futures
\* still held and the results already taken
VerifiedFor(code) == {raw \in futures \cup DOMAIN results : Ident(raw) = code}

\* C22: an identifier listed under Men and under Women in one cycle is one
\* key of the merged set, with the entry of Women; one verify_stock call is
\* made for it in the cycle, and every notification sent for it goes to the
\* Women destination, at most once.
C22_BothFiltersGoToWomen ==
    \A code \in listed_twice :
       /\ code \in DOMAIN all_found_products
       /\ all_found_products[code].category = "Women"
       /\ Cardinality(VerifiedFor(code)) <= 1
       /\ Cardinality(SentFor(code)) <= 1
       /\ \A i \in SentFor(code) : sent[i].chat = Destination("Women")
       /\ \A i \in SentFor(code) : sent[i].chat # Destination("Men")

\* the results of a cycle have all been taken, and an identifier listed
\* under both filters was verified in-stock and its notification delivered
C22_Witness ==
    /\ pc = "verify"
    /\ futures = {}
    /\ \E code \in listed_twice :
         /\ Cardinality(VerifiedFor(code)) = 1
         /\ \E i \in SentFor(code) : sent[i].delivered

\* the notifier was called for A in this cycle and returned False
FailedForWatched == \E i \in SentFor(Watched) : ~sent[i].delivered

\* C23: for a product found and verified in stock in every cycle, a failed
\* notification is followed by a new cycle in which the notification is
\* attempted again, every cycle begun without an in_stock: true record of it
\* attempts the notification, and, the notifier delivering at some attempt,
\* the identifier gets recorded in_stock: true.
C23_AtLeastOnce ==
    /\ [](FailedForWatched => <>(sent = <<>> /\ <>(SentFor(Watched) # {})))
    /\ ((pc = "discover" /\ ~InStock(stock_state, Watched)) ~> (SentFor(Watched) # {}))
    /\ (~InStock(stock_state, Watched) ~> InStock(stock_state, Watched))

\* a cycle ended in which the notifier failed for A, which is in stock and
\* has no in_stock: true record
C23_Witness ==
    /\ pc = "sleep"
    /\ results[Watched].is_in_stock = "True"
    /\ FailedForWatched
    /\ ~InStock(stock_state, Watched)

====
